---- MODULE Spec2Model ----
(***************************************************************************)
(* Model of app/src/main/cpp/llama_jni.cpp: the UTF-8 <-> UTF-16           *)
(* transcoders (safeNewStringUTFStreaming, sanitizeInputString) and the    *)
(* JNI entry points that drive the generation loop under g_mutex.          *)
(* Bytes are integers 0..255, UTF-16 code units integers 0..65535; the     *)
(* masks and shifts of the source are written with \div and %.             *)
(***************************************************************************)
EXTENDS Integers, Sequences, FiniteSets, TLC

\* ------------------------------------------------------------------------
\* Bounds of the model
\* ------------------------------------------------------------------------
\* longest byte sequence handed to the transcoder
MaxLen == 4

\* longest host string handed to sanitizeInputString on its own
MaxUnits == 4

\* Code units the host strings are drawn from: 'A', U+07FF, U+0800, the
\* extreme high surrogates D800 DBFF, the extreme low surrogates DC00 DFFF,
\* and U+FFFF.
UnitAlphabet == {65, 2047, 2048, 55296, 56319, 56320, 57343, 65535}

\* Bytes the inputs are drawn from: the ASCII byte NUL, the two extreme
\* continuation bytes 0x80 0xBF, a 2-byte lead 0xC2, the 3-byte leads 0xE0
\* 0xED, the 4-byte leads 0xF0 0xF4.
ByteAlphabet == {0, 128, 191, 194, 224, 237, 240, 244}

\* Bytes the malformed inputs are drawn from: NUL, the continuation bytes
\* 0x80 0xBF, the always-overlong 2-byte lead 0xC0, the 3-byte leads 0xE0
\* 0xED, the 4-byte lead 0xF4 and the invalid lead 0xF8.
ErrorAlphabet == {0, 128, 191, 192, 224, 237, 244, 248}

RECURSIVE SeqsUpTo(_, _)
SeqsUpTo(S, n) ==
    IF n = 0 THEN {<<>>}
    ELSE LET shorter == SeqsUpTo(S, n - 1)
         IN shorter \cup {Append(s, x) : s \in {q \in shorter : Len(q) = n - 1}, x \in S}

\* ------------------------------------------------------------------------
\* safeNewStringUTFStreaming
\* ------------------------------------------------------------------------
\* the lead-byte classification of the scan loop; 0 stands for "invalid
\* start byte"
Expected(c) ==
    IF c <= 127 THEN 1
    ELSE IF c \div 32 = 6 THEN 2
    ELSE IF c \div 16 = 14 THEN 3
    ELSE IF c \div 8 = 30 THEN 4
    ELSE 0

\* (b & 0xC0) == 0x80
IsCont(b) == b \div 64 = 2

IncompleteOffByOne(index, expected, total) == index + expected >= total
\* if (index + expected > total) break;
Incomplete(index, expected, total) == index + expected > total

\* the codepoint assembled by the switch, from the bytes at index (0-based)
Codepoint(ptr, index, expected) ==
    LET c  == ptr[index + 1]
    IN CASE expected = 1 -> c
         [] expected = 2 -> (c % 32) * 64 + (ptr[index + 2] % 64)
         [] expected = 3 -> (c % 16) * 4096 + (ptr[index + 2] % 64) * 64
                              + (ptr[index + 3] % 64)
         [] expected = 4 -> (c % 8) * 262144 + (ptr[index + 2] % 64) * 4096
                              + (ptr[index + 3] % 64) * 64 + (ptr[index + 4] % 64)

\* the continuation checks of cases 2, 3, 4
ContinuationsOk(ptr, index, expected) ==
    \A k \in 1..(expected - 1) : IsCont(ptr[index + 1 + k])

CodepointRejectedNoOverlong(codepoint, expected) ==
    CASE expected = 1 -> FALSE
      [] expected = 2 -> FALSE
      [] expected = 3 -> codepoint >= 55296 /\ codepoint <= 57343
      [] expected = 4 -> codepoint > 1114111
CodepointRejectedNoSurrogate(codepoint, expected) ==
    CASE expected = 1 -> FALSE
      [] expected = 2 -> codepoint < 128
      [] expected = 3 -> codepoint < 2048
      [] expected = 4 -> codepoint < 65536 \/ codepoint > 1114111
\* the range checks of cases 2, 3, 4 (overlong, surrogate, above 0x10FFFF)
CodepointRejected(codepoint, expected) ==
    CASE expected = 1 -> FALSE
      [] expected = 2 -> codepoint < 128
      [] expected = 3 -> codepoint < 2048 \/ (codepoint >= 55296 /\ codepoint <= 57343)
      [] expected = 4 -> codepoint < 65536 \/ codepoint > 1114111

EncodeUTF16NoOffset(codepoint) ==
    IF codepoint <= 65535 THEN <<codepoint % 65536>>
    ELSE << (55296 + (codepoint \div 1024)) % 65536,
            (56320 + (codepoint % 1024)) % 65536 >>
\* the push_back block: one unit, or a high/low surrogate pair
EncodeUTF16(codepoint) ==
    IF codepoint <= 65535 THEN <<codepoint % 65536>>
    ELSE << (55296 + ((codepoint - 65536) \div 1024)) % 65536,
            (56320 + ((codepoint - 65536) % 1024)) % 65536 >>

\* the while loop: scans combined from index, appending to utf16; yields
\* the units and the index the loop ended at
RECURSIVE ScanFrom(_, _, _)
ScanFrom(ptr, index, utf16) ==
    LET total == Len(ptr)
    IN IF index >= total THEN [utf16 |-> utf16, index |-> index]
       ELSE LET c        == ptr[index + 1]
                expected == Expected(c)
            IN IF expected = 0 THEN ScanFrom(ptr, index + 1, utf16)
               ELSE IF Incomplete(index, expected, total)
                    THEN [utf16 |-> utf16, index |-> index]
               ELSE IF ~ContinuationsOk(ptr, index, expected)
                    THEN ScanFrom(ptr, index + 1, utf16)
               ELSE LET codepoint == Codepoint(ptr, index, expected)
                    IN IF CodepointRejected(codepoint, expected)
                       THEN ScanFrom(ptr, index + expected, utf16)
                       ELSE ScanFrom(ptr, index + expected,
                                     utf16 \o EncodeUTF16(codepoint))

CombinedNoCarry(chunk, rem) == chunk
\* std::string combined = remainder; combined.append(chunk);
Combined(chunk, rem) == rem \o chunk

\* remainder.assign(ptr + index, total - index) / remainder.clear()
NewRemainder(ptr, index) ==
    IF index < Len(ptr) THEN SubSeq(ptr, index + 1, Len(ptr)) ELSE <<>>

SafeNewStringUTFStreamingReplacing(chunk, rem) ==
    LET ptr == Combined(chunk, rem)
        r   == ScanFrom(ptr, 0, <<>>)
    IN IF chunk = <<>> /\ r.index < Len(ptr)
       THEN [out |-> Append(r.utf16, 65533), rem |-> <<>>, combined |-> ptr]
       ELSE [out |-> r.utf16, rem |-> NewRemainder(ptr, r.index), combined |-> ptr]
\* one call: the code units of the returned string and the new remainder
SafeNewStringUTFStreaming(chunk, rem) ==
    LET ptr == Combined(chunk, rem)
        r   == ScanFrom(ptr, 0, <<>>)
    IN [out |-> r.utf16, rem |-> NewRemainder(ptr, r.index), combined |-> ptr]

\* ------------------------------------------------------------------------
\* sanitizeInputString
\* ------------------------------------------------------------------------
IsHighSurrogate(u) == u >= 55296 /\ u <= 56319
IsLowSurrogate(u) == u >= 56320 /\ u <= 57343

CombineSurrogatesNoShift(high, low) == ((high - 55296) + (low - 56320)) + 65536
\* (((codepoint - 0xD800) << 10) | (low - 0xDC00)) + 0x10000
CombineSurrogates(high, low) == ((high - 55296) * 1024 + (low - 56320)) + 65536

\* the push_back chain: the UTF-8 form of one codepoint
EncodeUTF8(codepoint) ==
    IF codepoint <= 127 THEN <<codepoint % 256>>
    ELSE IF codepoint <= 2047
         THEN << (192 + (codepoint \div 64)) % 256, 128 + (codepoint % 64) >>
    ELSE IF codepoint <= 65535
         THEN << (224 + (codepoint \div 4096)) % 256,
                 128 + ((codepoint \div 64) % 64),
                 128 + (codepoint % 64) >>
    ELSE IF codepoint <= 1114111
         THEN << (240 + (codepoint \div 262144)) % 256,
                 128 + ((codepoint \div 4096) % 64),
                 128 + ((codepoint \div 64) % 64),
                 128 + (codepoint % 64) >>
    ELSE <<>>

\* the for loop over the code units, from unit i (0-based)
RECURSIVE SanitizeFrom(_, _, _)
SanitizeFrom(chars, i, result) ==
    LET length == Len(chars)
    IN IF i >= length THEN result
       ELSE LET codepoint == chars[i + 1]
            IN IF IsHighSurrogate(codepoint)
               THEN IF i + 1 < length
                    THEN LET low == chars[i + 2]
                         IN IF IsLowSurrogate(low)
                            THEN SanitizeFrom(chars, i + 2,
                                     result \o EncodeUTF8(CombineSurrogates(codepoint, low)))
                            ELSE SanitizeFrom(chars, i + 1, result)
                    ELSE result
               ELSE IF IsLowSurrogate(codepoint)
                    THEN SanitizeFrom(chars, i + 1, result)
               ELSE SanitizeFrom(chars, i + 1, result \o EncodeUTF8(codepoint))

SanitizeInputString(chars) == SanitizeFrom(chars, 0, <<>>)

\* ------------------------------------------------------------------------
\* Well-formed UTF-8 (Unicode 15, table 3-7), used to state the round trip
\* ------------------------------------------------------------------------
RECURSIVE WellFormedFrom(_, _)
WellFormedFrom(s, i) ==
    IF i > Len(s) THEN TRUE
    ELSE LET b == s[i]
             n == Len(s) - i
             tail(k) == s[i + k] >= 128 /\ s[i + k] <= 191
         IN \/ b <= 127 /\ WellFormedFrom(s, i + 1)
            \/ b >= 194 /\ b <= 223 /\ n >= 1 /\ tail(1) /\ WellFormedFrom(s, i + 2)
            \/ /\ b >= 224 /\ b <= 239 /\ n >= 2 /\ tail(1) /\ tail(2)
               /\ (b = 224 => s[i + 1] >= 160)
               /\ (b = 237 => s[i + 1] <= 159)
               /\ WellFormedFrom(s, i + 3)
            \/ /\ b >= 240 /\ b <= 244 /\ n >= 3 /\ tail(1) /\ tail(2) /\ tail(3)
               /\ (b = 240 => s[i + 1] >= 144)
               /\ (b = 244 => s[i + 1] <= 143)
               /\ WellFormedFrom(s, i + 4)

WellFormed(s) == WellFormedFrom(s, 1)

\* the scalar value of a well-formed 4-byte sequence
Scalar4(s) == (s[1] - 240) * 262144 + (s[2] - 128) * 4096 + (s[3] - 128) * 64 + (s[4] - 128)

\* ------------------------------------------------------------------------
\* State
\* ------------------------------------------------------------------------
VARIABLES
    input,        \* the byte sequence handed to the transcoder, chunk by chunk
    fed,          \* how many bytes of input the calls so far have been given
    chunk,        \* the chunk of the last call
    combined,     \* the local `combined` of the last call
    remainder,    \* the caller's remainder buffer
    emitted,      \* concatenation of the strings returned so far
    tpc,          \* "feeding", "flushed", "sanitized"
    sanitized,    \* what sanitizeInputString made of emitted
    pc,           \* per thread: where it is in the JNI function it called
    op,           \* per thread: the JNI function it called
    g_mutex,      \* the thread holding g_mutex, or NoThread
    g_model,      \* g_model != nullptr
    g_ctx,        \* g_ctx != nullptr
    ctx_size,     \* llama_n_ctx(g_ctx), 0 without a context
    kv_entries,   \* the key/value cache of g_ctx holds entries
    g_should_stop,
    frame         \* per thread: the locals of its call, and what its sink saw

varsT == <<input, fed, chunk, combined, remainder, emitted, tpc, sanitized>>
varsG == <<pc, op, g_mutex, g_model, g_ctx, ctx_size, kv_entries, g_should_stop, frame>>
vars == <<varsT, varsG>>

\* ------------------------------------------------------------------------
\* The streaming transcoder fed chunk by chunk, then flushed and sanitized
\* ------------------------------------------------------------------------
\* safeNewStringUTFStreaming(env, chunk, remainder) on the next k bytes
Feed(k) ==
    /\ tpc = "feeding"
    /\ fed + k <= Len(input)
    /\ LET r == SafeNewStringUTFStreaming(SubSeq(input, fed + 1, fed + k), remainder)
       IN /\ combined' = r.combined
          /\ remainder' = r.rem
          /\ emitted' = emitted \o r.out
    /\ fed' = fed + k
    /\ chunk' = SubSeq(input, fed + 1, fed + k)
    /\ UNCHANGED <<input, tpc, sanitized>>
    /\ UNCHANGED varsG

\* safeNewStringUTFStreaming(env, "", utf8_remainder) at the end of the stream
Flush ==
    /\ tpc = "feeding"
    /\ fed = Len(input)
    /\ LET r == SafeNewStringUTFStreaming(<<>>, remainder)
       IN /\ combined' = r.combined
          /\ remainder' = r.rem
          /\ emitted' = emitted \o r.out
    /\ tpc' = "flushed"
    /\ chunk' = <<>>
    /\ UNCHANGED <<input, fed, sanitized>>
    /\ UNCHANGED varsG

\* sanitizeInputString on the host string built from the fragments
Sanitize ==
    /\ tpc = "flushed"
    /\ sanitized' = SanitizeInputString(emitted)
    /\ tpc' = "sanitized"
    /\ UNCHANGED <<input, fed, chunk, combined, remainder, emitted>>
    /\ UNCHANGED varsG

NextT ==
    \/ \E k \in 0..MaxLen : Feed(k)
    \/ Flush
    \/ Sanitize

\* ------------------------------------------------------------------------
\* safeNewStringUTF
\* ------------------------------------------------------------------------
\* std::string::c_str() read as a C string: the bytes before the first NUL
RECURSIVE CStr(_)
CStr(s) == IF s = <<>> \/ Head(s) = 0 THEN <<>> ELSE <<Head(s)>> \o CStr(Tail(s))

\* ptr[k] of a NUL-terminated buffer (0-based)
At(bytes, k) == IF k < Len(bytes) THEN bytes[k + 1] ELSE 0

\* the while (*ptr) loop over a NUL-terminated buffer, from offset p
RECURSIVE ScanCString(_, _, _)
ScanCString(bytes, p, utf16) ==
    LET c == At(bytes, p)
    IN IF c = 0 THEN utf16
       ELSE IF c <= 127 THEN ScanCString(bytes, p + 1, Append(utf16, c))
       ELSE IF c \div 32 = 6
            THEN IF ~IsCont(At(bytes, p + 1)) THEN ScanCString(bytes, p + 1, utf16)
                 ELSE LET codepoint == (c % 32) * 64 + (At(bytes, p + 1) % 64)
                      IN IF codepoint < 128 THEN ScanCString(bytes, p + 2, utf16)
                         ELSE ScanCString(bytes, p + 2, utf16 \o EncodeUTF16(codepoint))
       ELSE IF c \div 16 = 14
            THEN IF ~IsCont(At(bytes, p + 1)) \/ ~IsCont(At(bytes, p + 2))
                 THEN ScanCString(bytes, p + 1, utf16)
                 ELSE LET codepoint == (c % 16) * 4096 + (At(bytes, p + 1) % 64) * 64
                                         + (At(bytes, p + 2) % 64)
                      IN IF codepoint < 2048 \/ (codepoint >= 55296 /\ codepoint <= 57343)
                         THEN ScanCString(bytes, p + 3, utf16)
                         ELSE ScanCString(bytes, p + 3, utf16 \o EncodeUTF16(codepoint))
       ELSE IF c \div 8 = 30
            THEN IF ~IsCont(At(bytes, p + 1)) \/ ~IsCont(At(bytes, p + 2))
                       \/ ~IsCont(At(bytes, p + 3))
                 THEN ScanCString(bytes, p + 1, utf16)
                 ELSE LET codepoint == (c % 8) * 262144 + (At(bytes, p + 1) % 64) * 4096
                                         + (At(bytes, p + 2) % 64) * 64
                                         + (At(bytes, p + 3) % 64)
                      IN IF codepoint < 65536 \/ codepoint > 1114111
                         THEN ScanCString(bytes, p + 4, utf16)
                         ELSE ScanCString(bytes, p + 4, utf16 \o EncodeUTF16(codepoint))
       ELSE ScanCString(bytes, p + 1, utf16)

\* the code units of the string safeNewStringUTF returns for a C string
SafeNewStringUTF(bytes) == ScanCString(CStr(bytes), 0, <<>>)

\* ------------------------------------------------------------------------
\* The engine collaborator and the stop markers
\* ------------------------------------------------------------------------
Threads == {"t1", "t2"}
NoThread == "none"

\* largest maxTokens a caller passes
MaxTokens == 3
\* largest contextSize a model is loaded with
MaxCtx == 3
\* most tokens common_tokenize returns for a prompt
MaxPrompt == 2

\* "<|end|>", "<|user|>", "<|assistant|>", "<|system|>"
StopMarkers ==
    { <<60, 124, 101, 110, 100, 124, 62>>,
      <<60, 124, 117, 115, 101, 114, 124, 62>>,
      <<60, 124, 97, 115, 115, 105, 115, 116, 97, 110, 116, 124, 62>>,
      <<60, 124, 115, 121, 115, 116, 101, 109, 124, 62>> }

\* The vocabulary of the loaded model: one end-of-generation token and
\* tokens whose pieces are "<|", "end|>", the two halves of U+1F600
\* (F0 9F | 98 80) and the empty piece.
Vocab == {"eog", "open", "end", "emoji1", "emoji2", "empty"}

\* llama_vocab_is_eog
IsEog(tok) == tok = "eog"

\* common_token_to_piece
Piece(tok) ==
    CASE tok = "open"   -> <<60, 124>>
      [] tok = "end"    -> <<101, 110, 100, 124, 62>>
      [] tok = "emoji1" -> <<240, 159>>
      [] tok = "emoji2" -> <<152, 128>>
      [] OTHER          -> <<>>

\* std::string::find(marker) != npos
Find(text, marker) ==
    \E i \in 1..(Len(text) - Len(marker) + 1) :
        SubSeq(text, i, i + Len(marker) - 1) = marker

\* the four find() calls of the loops
StopSequenceDetected(text) == \E m \in StopMarkers : Find(text, m)

\* ------------------------------------------------------------------------
\* The JNI entry points
\* ------------------------------------------------------------------------
\* the locals of a call before it has set any of them
EmptyFrame ==
    [ n_ctx          |-> 0,      \* const int n_ctx = llama_n_ctx(g_ctx)
      n_predict      |-> 0,      \* const int n_predict = maxTokens
      n_tokens       |-> 0,      \* batch.n_tokens after the prompt was added
      n_cur          |-> 0,
      n_decode       |-> 0,
      text           |-> <<>>,   \* result / accumulated_text
      utf8_remainder |-> <<>>,
      token          |-> "none", \* new_token_id
      delivered      |-> <<>>,   \* the strings onToken was called with
      completes      |-> 0,      \* calls of onComplete
      returned       |-> <<>>,   \* the jstring nativeGenerate returns
      iters          |-> 0,      \* loop bodies entered
      passes         |-> 0,      \* llama_decode calls made in the loop
      stop_samples   |-> 0,      \* tokens sampled while g_should_stop was set
      stop_frags     |-> 0,      \* onToken calls made while g_should_stop was set
      failed         |-> "no",   \* the llama_decode that failed: "initial", "token"
      early_stop     |-> FALSE ] \* nativeStopGeneration ran since the call was
                                 \* entered; kept until the call's flag reset

Locking == {"Generate", "Stream", "Load", "Unload", "Cleanup"}
Generating == {"Generate", "Stream"}

\* a thread enters one of the functions that start with the lock_guard
Call(t, o) ==
    /\ pc[t] = "idle"
    /\ pc' = [pc EXCEPT ![t] = "lock"]
    /\ op' = [op EXCEPT ![t] = o]
    /\ UNCHANGED <<g_mutex, g_model, g_ctx, ctx_size, kv_entries, g_should_stop, frame>>
    /\ UNCHANGED varsT

MutexFreeAlways == TRUE
\* std::mutex::lock() returns only when no thread owns the mutex
MutexFree == g_mutex = NoThread

\* std::lock_guard<std::mutex> lock(g_mutex);
Acquire(t) ==
    /\ pc[t] = "lock"
    /\ MutexFree
    /\ g_mutex' = t
    /\ pc' = [pc EXCEPT ![t] = "entry"]
    /\ UNCHANGED <<op, g_model, g_ctx, ctx_size, kv_entries, g_should_stop, frame>>
    /\ UNCHANGED varsT

\* nativeLoadModel after the lock: frees the old model, loads the new one
LoadModel(t) ==
    /\ pc[t] = "entry" /\ op[t] = "Load"
    /\ \E outcome \in {"no_model", "no_ctx", "ok"}, contextSize \in 1..MaxCtx :
          /\ g_model' = (outcome = "ok")
          /\ g_ctx' = (outcome = "ok")
          /\ ctx_size' = IF outcome = "ok" THEN contextSize ELSE 0
    \* the old context is freed; llama_init_from_model gives an empty cache
    /\ kv_entries' = FALSE
    /\ pc' = [pc EXCEPT ![t] = "done"]
    /\ UNCHANGED <<op, g_mutex, g_should_stop, frame>>
    /\ UNCHANGED varsT

\* nativeUnloadModel / nativeCleanup after the lock
FreeModel(t) ==
    /\ pc[t] = "entry" /\ op[t] \in {"Unload", "Cleanup"}
    /\ g_model' = FALSE
    /\ g_ctx' = FALSE
    /\ ctx_size' = 0
    /\ kv_entries' = FALSE
    /\ pc' = [pc EXCEPT ![t] = "done"]
    /\ UNCHANGED <<op, g_mutex, g_should_stop, frame>>
    /\ UNCHANGED varsT

\* nativeGenerate / nativeGenerateStream from the lock to the initial
\* llama_decode: the null check, the flag reset and the cache clear
\* (streaming only), the tokenizer and the prompt batch.  batch.logits[batch.n_tokens - 1] with an
\* empty token list, and more prompt tokens than the batch was allocated
\* for, are out-of-bounds writes: the process dies or goes on.
Entry(t) ==
    /\ pc[t] = "entry" /\ op[t] \in Generating
    /\ IF ~g_model \/ ~g_ctx
       THEN /\ pc' = [pc EXCEPT ![t] = "done"]
            /\ frame' = [frame EXCEPT ![t].returned = SafeNewStringUTF(<<>>)]
            /\ UNCHANGED <<g_should_stop, kv_entries>>
       ELSE \E maxTokens \in (-1)..MaxTokens, n \in 0..MaxPrompt, dies \in BOOLEAN :
               /\ g_should_stop' = IF op[t] = "Stream" THEN FALSE ELSE g_should_stop
               \* llama_memory_clear(mem, false): nativeGenerateStream only
               /\ kv_entries' = IF op[t] = "Stream" THEN FALSE ELSE kv_entries
               /\ frame' = [frame EXCEPT ![t] =
                               [EmptyFrame EXCEPT !.n_ctx = ctx_size,
                                                  !.n_predict = maxTokens,
                                                  !.n_tokens = n]]
               /\ pc' = IF dies /\ (n = 0 \/ n > ctx_size)
                        THEN [u \in Threads |-> "crashed"]
                        ELSE [pc EXCEPT ![t] = "initial"]
    /\ UNCHANGED <<op, g_mutex, g_model, g_ctx, ctx_size>>
    /\ UNCHANGED varsT

\* the initial llama_decode and both of its outcomes; a pass that succeeds
\* leaves the batch's tokens in the cache
InitialDecode(t) ==
    /\ pc[t] = "initial"
    /\ \E ok \in BOOLEAN :
          IF ok
          THEN /\ frame' = [frame EXCEPT ![t].n_cur = frame[t].n_tokens,
                                         ![t].n_decode = 0]
               /\ kv_entries' = (kv_entries \/ frame[t].n_tokens > 0)
               /\ pc' = [pc EXCEPT ![t] = "loop"]
          ELSE /\ UNCHANGED kv_entries
               /\ frame' = IF op[t] = "Stream"
                           THEN [frame EXCEPT ![t].completes = @ + 1,
                                              ![t].failed = "initial"]
                           ELSE [frame EXCEPT ![t].returned = SafeNewStringUTF(<<>>),
                                              ![t].failed = "initial"]
               /\ pc' = [pc EXCEPT ![t] = "done"]
    /\ UNCHANGED <<op, g_mutex, g_model, g_ctx, ctx_size, g_should_stop>>
    /\ UNCHANGED varsT

BatchLoopNoBudget(f) == f.n_cur <= f.n_ctx
\* while (n_cur <= n_ctx && n_decode < n_predict)
BatchLoopCondition(f) == f.n_cur <= f.n_ctx /\ f.n_decode < f.n_predict

StreamLoopNoFlag(f, stop) == f.n_cur <= f.n_ctx /\ f.n_decode < f.n_predict
\* while (n_cur <= n_ctx && n_decode < n_predict && !g_should_stop.load())
StreamLoopCondition(f, stop) ==
    f.n_cur <= f.n_ctx /\ f.n_decode < f.n_predict /\ ~stop

\* where a call goes when it leaves the loop
AfterLoop(o) == IF o = "Stream" THEN "flush" ELSE "finish"

\* the test at the head of the while loop
LoopCheck(t) ==
    /\ pc[t] = "loop"
    /\ LET go == IF op[t] = "Stream"
                 THEN StreamLoopCondition(frame[t], g_should_stop)
                 ELSE BatchLoopCondition(frame[t])
       IN IF go
          THEN /\ pc' = [pc EXCEPT ![t] = "sample"]
               /\ frame' = [frame EXCEPT ![t].iters = @ + 1]
          ELSE /\ pc' = [pc EXCEPT ![t] = AfterLoop(op[t])]
               /\ UNCHANGED frame
    /\ UNCHANGED <<op, g_mutex, g_model, g_ctx, ctx_size, kv_entries, g_should_stop>>
    /\ UNCHANGED varsT

StopSequenceNever(text) == FALSE
\* the if around the four find() calls of the loop
StopBreak(text) == StopSequenceDetected(text)

\* llama_sampler_sample, the end-of-generation test, the append of the
\* piece and the stop-sequence test
Sample(t) ==
    /\ pc[t] = "sample"
    /\ \E new_token_id \in Vocab :
          LET stopped == IF g_should_stop THEN 1 ELSE 0
          IN IF IsEog(new_token_id)
             THEN /\ frame' = [frame EXCEPT ![t].token = new_token_id,
                                            ![t].stop_samples = @ + stopped]
                  /\ pc' = [pc EXCEPT ![t] = AfterLoop(op[t])]
             ELSE LET text == frame[t].text \o Piece(new_token_id)
                  IN /\ frame' = [frame EXCEPT ![t].token = new_token_id,
                                               ![t].text = text,
                                               ![t].stop_samples = @ + stopped]
                     /\ pc' = [pc EXCEPT ![t] =
                                  IF StopBreak(text) THEN AfterLoop(op[t])
                                  ELSE IF op[t] = "Stream" THEN "emit"
                                  ELSE "decode"]
    /\ UNCHANGED <<op, g_mutex, g_model, g_ctx, ctx_size, kv_entries, g_should_stop>>
    /\ UNCHANGED varsT

DeliverAlways(f, out, stop) ==
    [f EXCEPT !.delivered = Append(@, out),
              !.stop_frags = @ + (IF stop THEN 1 ELSE 0)]
DeliverPrepend(f, out, stop) ==
    IF Len(out) > 0
    THEN [f EXCEPT !.delivered = <<out>> \o @,
                   !.stop_frags = @ + (IF stop THEN 1 ELSE 0)]
    ELSE f
\* what a call of onToken leaves in the sink's record
Deliver(f, out, stop) ==
    IF Len(out) > 0
    THEN [f EXCEPT !.delivered = Append(@, out),
                   !.stop_frags = @ + (IF stop THEN 1 ELSE 0)]
    ELSE f

\* if (!token_str.empty()) { ... safeNewStringUTFStreaming ... onToken ... }
Emit(t) ==
    /\ pc[t] = "emit"
    /\ LET token_str == Piece(frame[t].token)
           r == SafeNewStringUTFStreaming(token_str, frame[t].utf8_remainder)
       IN /\ frame' = [frame EXCEPT ![t] =
                          IF token_str # <<>>
                          THEN Deliver([frame[t] EXCEPT !.utf8_remainder = r.rem],
                                       r.out, g_should_stop)
                          ELSE frame[t]]
          \* onToken is called for a non-empty string only, and may throw
          /\ \E raises \in BOOLEAN :
                pc' = [pc EXCEPT ![t] =
                          IF raises /\ token_str # <<>> /\ Len(r.out) > 0
                          THEN "thrown" ELSE "decode"]
    /\ UNCHANGED <<op, g_mutex, g_model, g_ctx, ctx_size, kv_entries, g_should_stop>>
    /\ UNCHANGED varsT

AfterExceptionAbort == "flush"
\* where the loop goes on after ExceptionClear()
AfterException == "decode"

\* if (env->ExceptionCheck()) { ... env->ExceptionClear(); }
ClearException(t) ==
    /\ pc[t] = "thrown"
    /\ pc' = [pc EXCEPT ![t] = AfterException]
    /\ UNCHANGED <<op, g_mutex, g_model, g_ctx, ctx_size, kv_entries, g_should_stop, frame>>
    /\ UNCHANGED varsT

DecodeRetry(ok, o) == "loop"
\* if (llama_decode(g_ctx, batch) != 0) { ... break; }
DecodeNext(ok, o) == IF ok THEN "loop" ELSE AfterLoop(o)

\* the single-token batch, the two increments and llama_decode
Decode(t) ==
    /\ pc[t] = "decode"
    /\ \E ok \in BOOLEAN :
          /\ frame' = [frame EXCEPT ![t].n_decode = @ + 1,
                                    ![t].n_cur = @ + 1,
                                    ![t].passes = @ + 1,
                                    ![t].failed = IF ok THEN @ ELSE "token"]
          /\ kv_entries' = (kv_entries \/ ok)
          /\ pc' = [pc EXCEPT ![t] = DecodeNext(ok, op[t])]
    /\ UNCHANGED <<op, g_mutex, g_model, g_ctx, ctx_size, g_should_stop>>
    /\ UNCHANGED varsT

\* if (!utf8_remainder.empty()) { safeNewStringUTFStreaming(env, "", ...) ... }
StreamFlush(t) ==
    /\ pc[t] = "flush"
    /\ LET r == SafeNewStringUTFStreaming(<<>>, frame[t].utf8_remainder)
       IN frame' = [frame EXCEPT ![t] =
                       IF frame[t].utf8_remainder # <<>>
                       THEN Deliver([frame[t] EXCEPT !.utf8_remainder = r.rem],
                                    r.out, g_should_stop)
                       ELSE frame[t]]
    /\ pc' = [pc EXCEPT ![t] = "complete"]
    /\ UNCHANGED <<op, g_mutex, g_model, g_ctx, ctx_size, kv_entries, g_should_stop>>
    /\ UNCHANGED varsT

\* env->CallVoidMethod(callback, onCompleteMethod);
StreamComplete(t) ==
    /\ pc[t] = "complete"
    /\ frame' = [frame EXCEPT ![t].completes = @ + 1]
    /\ pc' = [pc EXCEPT ![t] = "done"]
    /\ UNCHANGED <<op, g_mutex, g_model, g_ctx, ctx_size, kv_entries, g_should_stop>>
    /\ UNCHANGED varsT

\* return safeNewStringUTF(env, result.c_str());
BatchFinish(t) ==
    /\ pc[t] = "finish"
    /\ frame' = [frame EXCEPT ![t].returned = SafeNewStringUTF(frame[t].text)]
    /\ pc' = [pc EXCEPT ![t] = "done"]
    /\ UNCHANGED <<op, g_mutex, g_model, g_ctx, ctx_size, kv_entries, g_should_stop>>
    /\ UNCHANGED varsT

\* the function returns: the lock_guard releases g_mutex, the locals die
Return(t) ==
    /\ pc[t] = "done"
    /\ g_mutex' = IF g_mutex = t THEN NoThread ELSE g_mutex
    /\ pc' = [pc EXCEPT ![t] = "idle"]
    /\ op' = [op EXCEPT ![t] = "none"]
    /\ frame' = [frame EXCEPT ![t] = EmptyFrame]
    /\ UNCHANGED <<g_model, g_ctx, ctx_size, kv_entries, g_should_stop>>
    /\ UNCHANGED varsT

\* nativeStopGeneration: g_should_stop.store(true), no lock taken; a
\* streaming call that was entered and has not reset the flag yet has the
\* request noted in its frame
StopGeneration(t) ==
    /\ pc[t] = "idle"
    /\ g_should_stop' = TRUE
    /\ frame' = [u \in Threads |->
                    IF op[u] = "Stream" /\ pc[u] \in {"lock", "entry"}
                    THEN [frame[u] EXCEPT !.early_stop = TRUE]
                    ELSE frame[u]]
    /\ UNCHANGED <<pc, op, g_mutex, g_model, g_ctx, ctx_size, kv_entries>>
    /\ UNCHANGED varsT

NextG ==
    \/ \E t \in Threads, o \in Locking : Call(t, o)
    \/ \E t \in Threads : Acquire(t)
    \/ \E t \in Threads : LoadModel(t)
    \/ \E t \in Threads : FreeModel(t)
    \/ \E t \in Threads : Entry(t)
    \/ \E t \in Threads : InitialDecode(t)
    \/ \E t \in Threads : LoopCheck(t)
    \/ \E t \in Threads : Sample(t)
    \/ \E t \in Threads : Emit(t)
    \/ \E t \in Threads : ClearException(t)
    \/ \E t \in Threads : Decode(t)
    \/ \E t \in Threads : StreamFlush(t)
    \/ \E t \in Threads : StreamComplete(t)
    \/ \E t \in Threads : BatchFinish(t)
    \/ \E t \in Threads : Return(t)
    \/ \E t \in Threads : StopGeneration(t)

\* ------------------------------------------------------------------------
\* Specifications
\* ------------------------------------------------------------------------
\* no thread has called anything, no model is loaded; the transcoder is
\* about to be given a byte sequence
InitTranscode ==
    /\ input \in SeqsUpTo(ByteAlphabet, MaxLen)
    /\ fed = 0
    /\ chunk = <<>>
    /\ combined = <<>>
    /\ remainder = <<>>
    /\ emitted = <<>>
    /\ tpc = "feeding"
    /\ sanitized = <<>>
    /\ pc = [t \in Threads |-> "idle"]
    /\ op = [t \in Threads |-> "none"]
    /\ g_mutex = NoThread
    /\ g_model = FALSE
    /\ g_ctx = FALSE
    /\ ctx_size = 0
    /\ kv_entries = FALSE
    /\ g_should_stop = FALSE
    /\ frame = [t \in Threads |-> EmptyFrame]

\* the transcoders alone, on every input within the bounds
SpecTranscode == InitTranscode /\ [][NextT]_vars

\* as InitTranscode, the byte sequence drawn from the malformed inputs
InitTranscodeErrors ==
    /\ input \in SeqsUpTo(ErrorAlphabet, MaxLen)
    /\ fed = 0
    /\ chunk = <<>>
    /\ combined = <<>>
    /\ remainder = <<>>
    /\ emitted = <<>>
    /\ tpc = "feeding"
    /\ sanitized = <<>>
    /\ pc = [t \in Threads |-> "idle"]
    /\ op = [t \in Threads |-> "none"]
    /\ g_mutex = NoThread
    /\ g_model = FALSE
    /\ g_ctx = FALSE
    /\ ctx_size = 0
    /\ kv_entries = FALSE
    /\ g_should_stop = FALSE
    /\ frame = [t \in Threads |-> EmptyFrame]

\* the transcoders on malformed input
SpecTranscodeErrors == InitTranscodeErrors /\ [][NextT]_vars

\* sanitizeInputString is about to be given a host string (held in emitted)
InitSanitize ==
    /\ emitted \in SeqsUpTo(UnitAlphabet, MaxUnits)
    /\ tpc = "flushed"
    /\ input = <<>>
    /\ fed = 0
    /\ chunk = <<>>
    /\ combined = <<>>
    /\ remainder = <<>>
    /\ sanitized = <<>>
    /\ pc = [t \in Threads |-> "idle"]
    /\ op = [t \in Threads |-> "none"]
    /\ g_mutex = NoThread
    /\ g_model = FALSE
    /\ g_ctx = FALSE
    /\ ctx_size = 0
    /\ kv_entries = FALSE
    /\ g_should_stop = FALSE
    /\ frame = [t \in Threads |-> EmptyFrame]

NextS == Sanitize

\* sanitizeInputString alone, on every host string within the bounds
SpecSanitize == InitSanitize /\ [][NextS]_vars

\* the globals as their initializers leave them, no thread in any call
InitGen ==
    /\ pc = [t \in Threads |-> "idle"]
    /\ op = [t \in Threads |-> "none"]
    /\ g_mutex = NoThread
    /\ g_model = FALSE
    /\ g_ctx = FALSE
    /\ ctx_size = 0
    /\ kv_entries = FALSE
    /\ g_should_stop = FALSE
    /\ frame = [t \in Threads |-> EmptyFrame]
    /\ input = <<>>
    /\ fed = 0
    /\ chunk = <<>>
    /\ combined = <<>>
    /\ remainder = <<>>
    /\ emitted = <<>>
    /\ tpc = "idle"
    /\ sanitized = <<>>

\* the JNI entry points called from two threads
SpecGen == InitGen /\ [][NextG]_vars

\* ------------------------------------------------------------------------
\* Properties of the transcoders (SpecTranscode)
\* ------------------------------------------------------------------------
\* C1: chunk-invariance.  However the bytes given so far were cut into
\* chunks (empty chunks and cuts inside a multi-byte sequence included), the
\* concatenated outputs and the remainder are those of one call on the same
\* bytes with an empty remainder.
ChunkInvariance ==
    LET whole == SafeNewStringUTFStreaming(SubSeq(input, 1, fed), <<>>)
    IN /\ emitted = whole.out
       /\ remainder = whole.rem

\* a 4-byte sequence whose last byte came in a chunk of its own, after the
\* first three were carried over, decoded to its surrogate pair
ChunkInvarianceWitness ==
    /\ input = <<240, 191, 128, 128>>
    /\ fed = 4
    /\ chunk = <<128>>
    /\ combined = input
    /\ emitted = <<55484, 56320>>
    /\ remainder = <<>>

\* the length a lead byte 0xC0-0xF7 announces
AnnouncedLength(lead) == IF lead < 224 THEN 2 ELSE IF lead < 240 THEN 3 ELSE 4

\* C8: after every call of the transcoder the remainder is at most 3 bytes
\* long; when non-empty it starts with a lead byte 0xC0-0xF7 announcing more
\* bytes than the remainder holds; and the call decoded the old remainder
\* followed by the new chunk.
RemainderInvariant ==
    [][ tpc' # "sanitized" =>
          /\ combined' = remainder \o chunk'
          /\ Len(remainder') <= 3
          /\ remainder' # <<>> =>
                /\ remainder'[1] >= 192 /\ remainder'[1] <= 247
                /\ AnnouncedLength(remainder'[1]) > Len(remainder') ]_vars

\* a call that both used a carried remainder and left a 3-byte one
RemainderInvariantWitness ==
    /\ tpc = "feeding"
    /\ Len(remainder) = 3
    /\ Len(chunk) = 1
    /\ combined = remainder
    /\ emitted = <<>>

\* C9 as claimed: after the flush call the remainder is empty.
FlushEmptiesRemainder ==
    tpc \in {"flushed", "sanitized"} => remainder = <<>>

\* the units of emitted that are high surrogates
HighUnits == {i \in 1..Len(emitted) : IsHighSurrogate(emitted[i])}
LowUnits == {i \in 1..Len(emitted) : IsLowSurrogate(emitted[i])}

\* C10: round trip and surrogate fidelity.  For well-formed UTF-8 input the
\* sanitizer gives back exactly the input bytes; every 4-byte sequence has
\* become one high surrogate immediately followed by one low surrogate, and
\* a single 4-byte sequence's pair combines to its scalar value.
RoundTrip ==
    (tpc = "sanitized" /\ WellFormed(input)) =>
        /\ sanitized = input
        /\ Cardinality(HighUnits) = Cardinality({i \in 1..Len(input) : input[i] >= 240})
        /\ \A i \in HighUnits : i + 1 \in LowUnits
        /\ \A i \in LowUnits : i - 1 \in HighUnits
        /\ (Len(input) = 4 /\ input[1] >= 240) =>
              /\ Len(emitted) = 2
              /\ (emitted[1] - 55296) * 1024 + (emitted[2] - 56320) + 65536
                    = Scalar4(input)

\* U+100000 (F4 80 80 80) went through both directions
RoundTripWitness ==
    /\ tpc = "sanitized"
    /\ input = <<244, 128, 128, 128>>
    /\ emitted = <<56256, 56320>>
    /\ sanitized = input

\* ------------------------------------------------------------------------
\* Properties of the JNI entry points (SpecGen)
\* ------------------------------------------------------------------------
HasMarker(text) == \E m \in StopMarkers : Find(text, m)
Max0(n) == IF n > 0 THEN n ELSE 0

\* the threads between their lock acquisition and their return
InBody == {t \in Threads : pc[t] \notin {"idle", "lock", "crashed"}}
\* the threads inside the loop of a generate call
InLoop == {t \in Threads : op[t] \in Generating
                             /\ pc[t] \in {"loop", "sample", "emit", "thrown", "decode"}}

\* C2 as claimed: a call of nativeGenerateStream that is about to return has
\* called onComplete exactly once.
OnCompleteExactlyOnce ==
    \A t \in Threads :
        (op[t] = "Stream" /\ pc[t] = "done") => frame[t].completes = 1

\* C3: at most one thread is between its lock acquisition and its return,
\* that thread is the owner of g_mutex, and no step frees or replaces the
\* model or the context while a generation loop is running.
MutualExclusion ==
    /\ [](Cardinality(InBody) <= 1 /\ \A t \in InBody : g_mutex = t)
    /\ [][InLoop # {} => UNCHANGED <<g_model, g_ctx, ctx_size>>]_vars

\* one thread samples while the other waits for the mutex to unload the model
MutualExclusionWitness ==
    /\ pc["t1"] = "sample" /\ op["t1"] = "Stream"
    /\ pc["t2"] = "lock" /\ op["t2"] = "Unload"
    /\ frame["t1"].n_decode >= 1

\* C4: once the stop flag is set during a streaming session, at most the
\* iteration in progress completes: at most one token is sampled and at most
\* one fragment delivered with the flag set, the loop test with the flag set
\* leaves the loop for the flush, and nativeStopGeneration can run whatever
\* the state of the mutex.
CancellationLatency ==
    /\ [](\A t \in Threads : op[t] = "Stream" =>
              frame[t].stop_samples <= 1 /\ frame[t].stop_frags <= 1)
    /\ [][\A t \in Threads :
              (op[t] = "Stream" /\ pc[t] = "loop" /\ g_should_stop)
                 => pc'[t] \in {"loop", "flush"}]_vars
    /\ [](\A t \in Threads : pc[t] = "idle" => ENABLED StopGeneration(t))

\* a streaming call stopped in mid-iteration delivered that iteration's
\* fragment, then completed, the mutex still held
CancellationLatencyWitness ==
    /\ g_should_stop
    /\ op["t1"] = "Stream" /\ pc["t1"] = "done"
    /\ g_mutex = "t1"
    /\ frame["t1"].stop_frags = 1
    /\ frame["t1"].n_decode < frame["t1"].n_predict
    /\ frame["t1"].n_cur <= frame["t1"].n_ctx
    /\ frame["t1"].completes = 1

\* C5: a generate call enters its loop body at most max(N, 0) times and
\* makes at most that many per-token forward passes, and is never inside
\* the loop body with n_cur beyond the context size.
LoopTerminates ==
    \A t \in Threads : op[t] \in Generating =>
        /\ frame[t].iters <= Max0(frame[t].n_predict)
        /\ frame[t].passes <= Max0(frame[t].n_predict)
        /\ pc[t] \in {"sample", "emit", "decode"} => frame[t].n_cur <= frame[t].n_ctx

\* a batch call that used up its whole budget
LoopTerminatesWitness ==
    /\ op["t1"] = "Generate" /\ pc["t1"] = "finish"
    /\ frame["t1"].n_predict >= 2
    /\ frame["t1"].passes = frame["t1"].n_predict
    /\ frame["t1"].n_cur <= frame["t1"].n_ctx

\* C6 as claimed: the string nativeGenerate returns contains no stop marker.
BatchResultHasNoMarker ==
    \A t \in Threads :
        (op[t] = "Generate" /\ pc[t] = "done") => ~HasMarker(frame[t].returned)

\* C7: in a streaming call, the step that makes the accumulated text contain
\* a stop marker, and every step after it, delivers nothing, submits no
\* forward pass and enters no further iteration; the call is on its way
\* through flush and onComplete.
StopPrecedence ==
    [][\A t \in Threads :
          (op[t] = "Stream" /\ HasMarker(frame'[t].text)) =>
              /\ frame'[t].delivered = frame[t].delivered
              /\ frame'[t].passes = frame[t].passes
              /\ frame'[t].iters = frame[t].iters
              /\ pc'[t] \in {"flush", "complete", "done"}]_vars

\* "<|" was delivered, "end|>" completed the marker and was not
StopPrecedenceWitness ==
    /\ op["t1"] = "Stream" /\ pc["t1"] = "done"
    /\ frame["t1"].text = <<60, 124, 101, 110, 100, 124, 62>>
    /\ frame["t1"].delivered = << <<60, 124>> >>
    /\ frame["t1"].passes = 1
    /\ frame["t1"].completes = 1

\* ------------------------------------------------------------------------
\* Properties of sanitizeInputString on arbitrary host strings (SpecSanitize)
\* ------------------------------------------------------------------------
\* the UTF-8 form of a scalar value, by the bit layout of the standard
RefUTF8(v) ==
    CASE v < 128     -> <<v>>
      [] v >= 128 /\ v < 2048 -> <<192 + (v \div 64), 128 + (v % 64)>>
      [] v >= 2048 /\ v < 65536 ->
            <<224 + (v \div 4096), 128 + ((v % 4096) \div 64), 128 + (v % 64)>>
      [] OTHER ->
            <<240 + (v \div 262144), 128 + ((v % 262144) \div 4096),
              128 + ((v % 4096) \div 64), 128 + (v % 64)>>

\* unit i is a high surrogate immediately followed by a low surrogate
PairStart(units, i) ==
    /\ IsHighSurrogate(units[i])
    /\ i < Len(units)
    /\ IsLowSurrogate(units[i + 1])

\* what unit i contributes: a pair its scalar value, a non-surrogate unit
\* itself, every other surrogate nothing
Contribution(units, i) ==
    IF PairStart(units, i)
    THEN RefUTF8(65536 + (units[i] - 55296) * 1024 + (units[i + 1] - 56320))
    ELSE IF units[i] >= 55296 /\ units[i] <= 57343 THEN <<>>
    ELSE RefUTF8(units[i])

RECURSIVE RefSanitizeUpTo(_, _)
RefSanitizeUpTo(units, n) ==
    IF n = 0 THEN <<>> ELSE RefSanitizeUpTo(units, n - 1) \o Contribution(units, n)

\* C11: for every UTF-16 code-unit sequence the sanitizer outputs the UTF-8
\* encoding of: each high surrogate immediately followed by a low surrogate
\* as one scalar value >= 0x10000, every non-surrogate unit, and nothing for
\* any other surrogate; the output is well-formed UTF-8.
SanitizerOnArbitraryInput ==
    tpc = "sanitized" =>
        /\ sanitized = RefSanitizeUpTo(emitted, Len(emitted))
        /\ WellFormed(sanitized)

\* high, high, low, 'A': the first high is dropped, its partner is
\* re-examined and pairs with the low (U+10FFFF), and 'A' is still processed
SanitizerOnArbitraryInputWitness ==
    /\ tpc = "sanitized"
    /\ emitted = <<55296, 56319, 57343, 65>>
    /\ sanitized = <<244, 143, 191, 191, 65>>

\* ------------------------------------------------------------------------
\* Further properties of the JNI entry points (SpecGen)
\* ------------------------------------------------------------------------
\* C12 as claimed: the batch loop, like the streaming loop, tests the stop
\* flag before each sample, so that at most the iteration in progress
\* samples a token once the flag is set.
BatchChecksStopFlag ==
    \A t \in Threads : op[t] = "Generate" => frame[t].stop_samples <= 1

\* C13 as claimed: a call whose prompt gave no tokens never gets as far as
\* the write to the batch's logits slot and the initial forward pass.
TokenizeFailureIsFatal ==
    \A t \in Threads :
        (op[t] \in Generating /\ frame[t].n_tokens = 0) =>
            pc[t] \in {"idle", "lock", "entry", "done", "crashed"}

\* the calls that have left their loop, or never entered it
Leaving == {"flush", "finish", "complete", "done"}

\* C14: once a forward pass has failed the call is on its way out, and no
\* step samples a token, submits a forward pass or (the flush apart)
\* delivers a fragment; batch mode returns the empty string after a failed
\* initial pass and the accumulated text after a failed per-token pass.
FailureEndsSession ==
    /\ [](\A t \in Threads : frame[t].failed # "no" =>
             /\ pc[t] \in Leaving
             /\ frame[t].failed = "initial" =>
                   /\ frame[t].iters = 0 /\ frame[t].passes = 0
                   /\ frame[t].delivered = <<>> /\ frame[t].returned = <<>>
             /\ (frame[t].failed = "token" /\ op[t] = "Generate" /\ pc[t] = "done") =>
                   frame[t].returned
                      = SafeNewStringUTFStreaming(frame[t].text, <<>>).out)
    /\ [][\A t \in Threads :
             (frame[t].failed # "no" /\ pc'[t] # "idle") =>
                /\ frame'[t].iters = frame[t].iters
                /\ frame'[t].passes = frame[t].passes
                /\ frame'[t].text = frame[t].text
                /\ pc[t] # "flush" => frame'[t].delivered = frame[t].delivered]_vars

\* a batch call whose second forward pass failed returned "<|"
FailureEndsSessionWitness ==
    /\ op["t1"] = "Generate" /\ pc["t1"] = "done"
    /\ frame["t1"].failed = "token"
    /\ frame["t1"].passes = 1
    /\ frame["t1"].n_predict >= 2
    /\ frame["t1"].returned = <<60, 124>>

RECURSIVE Flatten(_)
Flatten(fragments) ==
    IF fragments = <<>> THEN <<>> ELSE Head(fragments) \o Flatten(Tail(fragments))

\* the accumulated text without the piece of the token sampled last
TextBefore(f) == SubSeq(f.text, 1, Len(f.text) - Len(Piece(f.token)))

\* C15: an exception thrown by onToken is cleared and the loop goes on to
\* the forward pass of the same token with the locals it would have had
\* without the exception: the fragment counts as delivered, the fragments
\* and the remainder are those of the whole accumulated text, and the
\* counters are untouched.
SinkErrorsDoNotAbort ==
    /\ [](\A t \in Threads : pc[t] = "thrown" =>
             /\ Flatten(frame[t].delivered)
                   = SafeNewStringUTFStreaming(frame[t].text, <<>>).out
             /\ frame[t].utf8_remainder
                   = SafeNewStringUTFStreaming(frame[t].text, <<>>).rem
             /\ frame[t].n_decode = frame[t].passes
             /\ frame[t].iters = frame[t].passes + 1)
    /\ [][\A t \in Threads : pc[t] = "thrown" =>
             /\ pc'[t] \in {"thrown", "decode"}
             /\ frame'[t] = frame[t]]_vars

\* onToken threw on the second fragment of a streaming call
SinkErrorsDoNotAbortWitness ==
    /\ op["t1"] = "Stream" /\ pc["t1"] = "thrown"
    /\ Len(frame["t1"].delivered) = 2
    /\ frame["t1"].passes = 1

\* C16: the fragments delivered so far are, in order, the code units of the
\* accumulated text: of all of it when the token sampled last is about to be
\* submitted or a later one to be sampled, of all but its last piece when
\* that piece is about to be delivered; and once onComplete has been called
\* the call only returns.
DeliveryOrder ==
    /\ [](\A t \in Threads : op[t] = "Stream" =>
             /\ pc[t] \in {"decode", "thrown", "loop", "sample"} =>
                   Flatten(frame[t].delivered)
                      = SafeNewStringUTFStreaming(frame[t].text, <<>>).out
             /\ pc[t] = "emit" =>
                   Flatten(frame[t].delivered)
                      = SafeNewStringUTFStreaming(TextBefore(frame[t]), <<>>).out
             /\ frame[t].completes >= 1 => pc[t] = "done")
    /\ [][\A t \in Threads :
             (frame[t].completes >= 1 /\ pc'[t] # "idle") => frame'[t] = frame[t]]_vars

\* "<|" then U+1F600, whose bytes came in two tokens, then onComplete
DeliveryOrderWitness ==
    /\ op["t1"] = "Stream" /\ pc["t1"] = "done"
    /\ frame["t1"].completes = 1
    /\ frame["t1"].delivered = << <<60, 124>>, <<55357, 56832>> >>
    /\ frame["t1"].passes = 3

\* the token sampled last adds no code unit to the output
NoUnits(f) ==
    \/ Piece(f.token) = <<>>
    \/ SafeNewStringUTFStreaming(f.text, <<>>).out
          = SafeNewStringUTFStreaming(TextBefore(f), <<>>).out

\* C18: onToken is never called with an empty string; a token whose piece
\* is empty or only extends the remainder causes no onToken call and goes
\* on to its forward pass, which advances n_cur and n_decode by one.
EmptyTokenAdvances ==
    /\ [](\A t \in Threads : \A i \in 1..Len(frame[t].delivered) :
             Len(frame[t].delivered[i]) > 0)
    /\ [][\A t \in Threads :
             (pc[t] = "emit" /\ pc'[t] # "emit" /\ NoUnits(frame[t])) =>
                /\ frame'[t].delivered = frame[t].delivered
                /\ pc'[t] = "decode"]_vars
    /\ [][\A t \in Threads :
             (pc[t] = "decode" /\ pc'[t] # "decode") =>
                /\ frame'[t].n_cur = frame[t].n_cur + 1
                /\ frame'[t].n_decode = frame[t].n_decode + 1
                /\ frame'[t].passes = frame[t].passes + 1]_vars

\* the first half of U+1F600 was sampled and submitted, nothing delivered
EmptyTokenAdvancesWitness ==
    /\ op["t1"] = "Stream" /\ pc["t1"] = "loop"
    /\ frame["t1"].token = "emoji1"
    /\ frame["t1"].utf8_remainder = <<240, 159>>
    /\ frame["t1"].n_decode = 1
    /\ frame["t1"].n_cur = frame["t1"].n_tokens + 1
    /\ frame["t1"].delivered = <<>>

\* ------------------------------------------------------------------------
\* Further properties of the streaming transcoder (SpecTranscode)
\* ------------------------------------------------------------------------
\* the bytes s[i..i+n-1] are one well-formed UTF-8 sequence (table 3-7)
WellFormedAt(s, i, n) ==
    LET b == s[i]
        tail(k) == s[i + k] >= 128 /\ s[i + k] <= 191
    IN CASE n = 1 -> b <= 127
         [] n = 2 -> b >= 194 /\ tail(1)
         [] n = 3 -> /\ tail(1) /\ tail(2)
                     /\ (b = 224 => s[i + 1] >= 160)
                     /\ (b = 237 => s[i + 1] <= 159)
         [] n = 4 -> /\ b <= 244 /\ tail(1) /\ tail(2) /\ tail(3)
                     /\ (b = 240 => s[i + 1] >= 144)
                     /\ (b = 244 => s[i + 1] <= 143)

\* the scalar value of the well-formed sequence s[i..i+n-1]
ScalarAt(s, i, n) ==
    CASE n = 1 -> s[i]
      [] n = 2 -> (s[i] - 192) * 64 + (s[i + 1] - 128)
      [] n = 3 -> (s[i] - 224) * 4096 + (s[i + 1] - 128) * 64 + (s[i + 2] - 128)
      [] n = 4 -> (s[i] - 240) * 262144 + (s[i + 1] - 128) * 4096
                     + (s[i + 2] - 128) * 64 + (s[i + 3] - 128)

\* the UTF-16 form of a scalar value
RefUTF16(v) ==
    IF v < 65536 THEN <<v>>
    ELSE <<55296 + ((v - 65536) \div 1024), 56320 + ((v - 65536) % 1024)>>

\* The reference decoder: at a byte that cannot start a sequence, or that
\* starts a sequence which is not well-formed, it skips that one byte and
\* emits nothing; at a lead byte announcing more bytes than are left it
\* stops; otherwise it emits the scalar value and moves past the sequence.
RECURSIVE RefDecodeFrom(_, _)
RefDecodeFrom(s, i) ==
    IF i > Len(s) THEN <<>>
    ELSE LET b == s[i]
             n == IF b <= 127 THEN 1
                  ELSE IF b >= 192 /\ b <= 247 THEN AnnouncedLength(b)
                  ELSE 0
         IN IF n = 0 THEN RefDecodeFrom(s, i + 1)
            ELSE IF i + n - 1 > Len(s) THEN <<>>
            ELSE IF WellFormedAt(s, i, n)
                 THEN RefUTF16(ScalarAt(s, i, n)) \o RefDecodeFrom(s, i + n)
            ELSE RefDecodeFrom(s, i + 1)

\* C17: whatever the bytes given so far, the transcoder's output is that of
\* the reference decoder, which skips exactly one byte at every decode error
\* and goes on with the next byte.
SkipPolicy ==
    emitted = RefDecodeFrom(SubSeq(input, 1, fed), 1)

\* a lone 0x80 was passed over and the U+0FFF after it decoded
SkipPolicyWitness ==
    /\ input = <<128, 224, 191, 191>>
    /\ fed = 4
    /\ tpc = "feeding"
    /\ emitted = <<4095>>
    /\ remainder = <<>>

\* every surrogate of a fragment is half of a pair inside that fragment
WellFormed16(units) ==
    \A i \in 1..Len(units) :
        /\ IsHighSurrogate(units[i]) => (i < Len(units) /\ IsLowSurrogate(units[i + 1]))
        /\ IsLowSurrogate(units[i]) => (i > 1 /\ IsHighSurrogate(units[i - 1]))

\* C19: the string returned by each call of the transcoder is well-formed
\* UTF-16 on its own: a surrogate only occurs as a high surrogate
\* immediately followed by its low surrogate in the same string.
FragmentsWellFormed ==
    [][WellFormed16(SubSeq(emitted', Len(emitted) + 1, Len(emitted')))]_vars

\* a 4-byte sequence cut in the middle came out as one pair from the call
\* that was given its second half
FragmentsWellFormedWitness ==
    /\ input = <<240, 191, 128, 128>>
    /\ fed = 4
    /\ chunk = <<128, 128>>
    /\ emitted = <<55484, 56320>>

PositionsInsideWindow ==
    \A t \in Threads :
        /\ pc[t] = "initial" => frame[t].n_tokens <= frame[t].n_ctx
        /\ pc[t] = "decode" =>
              frame[t].n_cur >= 0 /\ frame[t].n_cur <= frame[t].n_ctx - 1

\* C23: batch and streaming agree on the text: once every fragment of the
\* byte sequence was fed to the streaming transcoder and the flush was
\* made, the code units delivered are those of the string safeNewStringUTF
\* makes of the whole sequence.
BatchAndStreamAgree ==
    tpc = "flushed" => emitted = SafeNewStringUTF(input)

\* C24: every generation request starts on a clean engine cache: when a
\* call of nativeGenerate or nativeGenerateStream is about to submit its
\* prompt batch, the key/value cache holds no entry.
CleanCacheAtInitialPass ==
    \A t \in Threads : pc[t] = "initial" => ~kv_entries

\* C21: no cancellation request is lost: when a streaming call that
\* nativeStopGeneration was aimed at after it was entered (while it waited
\* for the mutex, or held it and had not started yet) goes past its flag
\* reset towards the initial pass, the request is still set for its loop to
\* observe.
NoCancellationLost ==
    [][\A t \in Threads :
          (op[t] = "Stream" /\ pc[t] = "entry" /\ frame[t].early_stop
              /\ pc'[t] = "initial") => g_should_stop']_vars

====
